---- MODULE Spec2Model ----
(***************************************************************************)
(* Model of the sequential audio-clip playback queue (useAudioClipQueue)   *)
(* and of the speaking test page that drives one test through its phases.  *)
(*                                                                         *)
(* The hook runs on the single JavaScript thread: playClips() executes     *)
(* synchronously up to its first await (the Promise wrapping one Audio     *)
(* element), and each time that promise settles the continuation runs to   *)
(* the next await or to the end of the function.  One action of the model  *)
(* is therefore one such run-to-suspension step.  stop() is synchronous.   *)
(*                                                                         *)
(* Each call keeps the record of the Audio elements and object URLs it has *)
(* created: one entry per playback attempt, in creation order.             *)
(*                                                                         *)
(* The second half of the module is the speaking test page                 *)
(* (AIPracticeSpeakingTest): its React state and refs, the intervals of    *)
(* its countdown effect, its pending setTimeout callbacks, getUserMedia    *)
(* calls, FileReaders and evaluation requests.  Transcripts, the examiner  *)
(* prompts and totalTestTime are left out: no handler reads them.          *)
(***************************************************************************)
EXTENDS Integers, Sequences, FiniteSets, TLC

\* ---------------------------------------------------------------- bounds
\* The calls of one behaviour cost at most MaxWork in all: a playClips call
\* with n clips and retryCount r costs the n * (r+1) playback attempts it may
\* need, a stop() call costs 1
MaxWork == 4

\* Clip keys, unique within a list: the clips of a list of length n are the
\* first n of these
KeySeq == <<"a", "b", "c", "d", "e", "f", "g", "h">>
Null == "null"

VARIABLES
  playSessionRef,   \* playSessionRef.current
  isSpeaking,       \* useState(false)
  currentClipKey,   \* useState<string | null>(null)
  failedClips,      \* useState<string[]>([])
  runs,             \* one record per playClips call that got past line 25:
                    \* its locals, its position and its playback attempts
  failedBy,         \* failedBy[k]: the call that appended failedClips[k]
  work              \* the cost of the calls made so far

VARIABLES
  showStartOverlay, \* useState(true)
  connection,       \* the examiner connection: none, pending, open, failed
                    \* or closed
  phase,            \* useState<TestPhase>('connecting')
  currentPart,      \* useState(1)
  timeLeft,         \* useState(0)
  isRecording,      \* useState(false)
  partRecordings,   \* useState<Record<number, PartRecording>>({})
  mediaRecorderRef, \* mediaRecorderRef.current: an index of recorders, or 0
  audioChunksRef,   \* audioChunksRef.current
  recorders,        \* the MediaRecorders created, each with its stream
  micRequests,      \* getUserMedia calls not yet settled
  timers,           \* the live intervals of the timer effect
  timeouts,         \* the pending setTimeout callbacks, in the order set
  readers,          \* the FileReaders not yet loaded
  submissions,      \* one record per handleCompleteTest call
  navigated,        \* the page was left for the results page
  events,           \* the bounded events so far
  chunkCount,       \* the audio fragments delivered so far
  countdownPhase,   \* the phase that set the countdown now running
  timeUp            \* the last handleTimeUp call: the phase it closed over,
                    \* the phase that had set the countdown, and whether
                    \* fragments had been captured

clipVars == <<playSessionRef, isSpeaking, currentClipKey, failedClips, runs,
              failedBy, work>>

pageVars == <<showStartOverlay, connection, phase, currentPart, timeLeft,
              isRecording, partRecordings, mediaRecorderRef, audioChunksRef,
              recorders, micRequests, timers, timeouts, readers, submissions,
              navigated, events, chunkCount, countdownPhase, timeUp>>

vars == <<clipVars, pageVars>>

ClipLists == {SubSeq(KeySeq, 1, n) : n \in 1..MaxWork}
RetryCounts == 0..(MaxWork - 1)

\* The attempts a call may need
Work(clips, retryCount) == Len(clips) * (retryCount + 1)

Calls == DOMAIN runs

\* ------------------------------------------------- pieces of the code

\* stop() that leaves the counter alone
StopSessionKept(ref) == ref

\* line 18: playSessionRef.current += 1
StopSession(ref) == ref + 1

\* line 27: const sessionId = ++playSessionRef.current
NewSession(ref) == ref + 1

\* the session comparison left out
SessionAlwaysActive(ref, sessionId) == TRUE

\* line 32 and line 65: the run's session is still the current one
SessionActive(ref, sessionId) == ref = sessionId

\* one attempt too many
ShouldAttemptOffByOne(attempts, retryCount, success) ==
  attempts <= retryCount + 1 /\ ~success

\* line 39: while (attempts <= retryCount && !success)
ShouldAttempt(attempts, retryCount, success) ==
  attempts <= retryCount /\ ~success

\* the loop steps over an element
SkipIndex(i) == i + 2

\* line 31: the for..of loop moves to the following element
NextIndex(i) == i + 1

\* the URL revoked on the success path only
RevokeOnSuccess(log, u) ==
  IF log[u].status = "ended" THEN [log EXCEPT ![u].revoked = @ + 1] ELSE log

\* line 55: URL.revokeObjectURL(url) in the finally block
Revoke(log, u) == [log EXCEPT ![u].revoked = @ + 1]

\* pcm16Base64ToWavUrl (imported at line 2, called at line 40) turns the
\* payload of clip i into a playable resource, or throws when the payload
\* of that clip does not decode
Decodes(run, i) == i \notin run.bad

\* line 40 throws: the call is outside the try block of lines 42-56, so the
\* exception leaves the loops and rejects the promise of playClips
DecodeThrows(st) == [st EXCEPT !.run.pc = "threw", !.run.url = 0]

\* lines 40-49: decode the clip, create the Audio element, start playing,
\* and suspend at the await
StartAttempt(st) ==
  LET e == [clip |-> st.run.i, attempt |-> st.run.attempts,
            sessAtStart |-> st.ref, status |-> "playing", revoked |-> 0]
  IN IF Decodes(st.run, st.run.i)
     THEN [st EXCEPT !.run.log = Append(st.run.log, e),
                     !.run.url = Len(st.run.log) + 1,
                     !.run.pc = "awaiting"]
     ELSE DecodeThrows(st)

\* the final state reset without the session comparison
FinishUnguarded(st) ==
  [st EXCEPT !.run.pc = "returned", !.run.url = 0,
             !.speaking = FALSE, !.key = Null]

\* the final state reset left out
FinishNoClear(st) == [st EXCEPT !.run.pc = "returned", !.run.url = 0]

\* lines 65-68: after the loop
Finish(st) ==
  LET st1 == [st EXCEPT !.run.pc = "returned", !.run.url = 0]
  IN IF SessionActive(st.ref, st.run.sessionId)
     THEN [st1 EXCEPT !.speaking = FALSE, !.key = Null]
     ELSE st1

\* lines 59-62: the clip is recorded as failed if it never succeeded
RecordFailure(st) ==
  IF ~st.run.success
  THEN [st EXCEPT !.failed = Append(st.failed, st.run.clips[st.run.i]),
                  !.failedBy = Append(st.failedBy, st.r)]
  ELSE st

RECURSIVE ForLoop(_, _), WhileLoop(_)

\* lines 39-57: the retry loop of the current clip, then lines 59-63
WhileLoop(st) ==
  IF ShouldAttempt(st.run.attempts, st.run.retryCount, st.run.success)
  THEN StartAttempt(st)
  ELSE ForLoop(RecordFailure(st), NextIndex(st.run.i))

\* lines 31-37: the loop over the clips, entered at clip j
ForLoop(st, j) ==
  IF j > Len(st.run.clips) THEN Finish(st)
  ELSE IF ~SessionActive(st.ref, st.run.sessionId) THEN Finish(st)
  ELSE WhileLoop([st EXCEPT !.key = st.run.clips[j],
                            !.run.i = j,
                            !.run.attempts = 0,
                            !.run.success = FALSE])

\* lines 50-56: the await has settled; try/catch/finally of one attempt
Settle(st, ok) ==
  LET u   == st.run.url
      st1 == [st EXCEPT !.run.log[u].status = IF ok THEN "ended" ELSE "error",
                        !.run.success = ok,
                        !.run.attempts = IF ok THEN @ ELSE @ + 1]
  IN [st1 EXCEPT !.run.log = Revoke(st1.run.log, u)]

\* The state a step of call r works on
StateOf(r, run) ==
  [ref |-> playSessionRef, speaking |-> isSpeaking, key |-> currentClipKey,
   failed |-> failedClips, failedBy |-> failedBy, r |-> r, run |-> run]

\* Calls whose session is the current one and that are suspended at the await
MarkCancelled(rs, ref, cause) ==
  [r \in DOMAIN rs |->
     IF rs[r].pc = "awaiting" /\ rs[r].sessionId = ref
        /\ rs[r].cancelCause = "none"
     THEN [rs[r] EXCEPT !.cancelCause = cause, !.cancelAt = rs[r].i]
     ELSE rs[r]]

\* ------------------------------------------- the speaking test page
\* AIPracticeSpeakingTest drives one test through its phases.  Every event
\* handler, timer callback and promise continuation of the component runs
\* to completion on the JavaScript thread, and React commits the state it
\* has set before the next one starts: each is one action.  The component
\* does not use the clip queue, so its actions leave the queue alone and the
\* queue's actions leave the page alone.

\* A behaviour of the page holds at most MaxEvents of: audio fragments
\* delivered, Resume presses, End Test presses, refusals of the
\* microphone and failures to connect
MaxEvents == 2

\* A getUserMedia call, a FileReader or an evaluation request settles
\* before the interval has fired more than MaxLag times
MaxLag == 1

PART2_PREP_TIME == 60
PART2_SPEAK_TIME == 120
PART2_MIN_SPEAKING_SECONDS == 80

\* The delays of the setTimeout calls, in milliseconds
Part1QuestionsDelay == 2000
Part2PrepDelay == 4000
Part2CaptureDelay == 2500
Part3TransitionDelay == 2500
Part3QuestionsDelay == 3000
CompleteTestDelay == 2000

\* (Date.now() - part2SpeakingStartRef.current) / 1000 as the wall clock
\* may give it: below the threshold, on it, and the nominal two minutes
SpeakingDurations == {79, 80, 120}

\* Math.floor((Date.now() - recording.startTime) / 1000)
RecordingDurations == {0, 7}

Phases ==
  {"connecting", "identity_check", "part1_intro", "part1_questions",
   "part1_question_recording", "part2_intro", "part2_prep",
   "part2_speaking", "part3_intro", "part3_questions",
   "part3_question_recording", "submitting", "done"}

Parts == 1..3

\* partRecordings[p] before the part is initialised (the key is absent),
\* and right after: -1 stands for an absent number, <<>> for an absent
\* payload.  A payload is the list of fragments that were encoded.
NoRecording ==
  [exists |-> FALSE, chunks |-> <<>>, speakingDuration |-> -1,
   audioBase64 |-> <<>>, duration |-> -1]
NewRecording == [NoRecording EXCEPT !.exists = TRUE]

\* mediaRecorderRef.current.stop() and the stop of its stream's tracks,
\* when the referenced recorder is recording
StopCapture(recs, ref) ==
  IF ref # 0 /\ recs[ref].state = "recording"
  THEN [recs EXCEPT ![ref] = [state |-> "inactive", live |-> FALSE]]
  ELSE recs

\* setPartRecordings(prev => ...) that appends fragments to a part
SaveChunks(prs, part, chunks) ==
  IF prs[part].exists
  THEN [prs EXCEPT ![part].chunks = @ \o chunks]
  ELSE prs

\* recording && recording.chunks.length > 0
HasChunks(rec) == rec.exists /\ Len(rec.chunks) > 0

\* The FileReader a finalization starts, if it starts one
StartReader(rds, rec, part, payload) ==
  IF HasChunks(rec)
  THEN Append(rds, [part |-> part, payload |-> payload, ticks |-> 0])
  ELSE rds

\* The timer effect without its cleanup
TimerEffectNoCleanup(tms, changed, tl, ph, prs) ==
  IF ~changed THEN tms
  ELSE IF tl <= 0 THEN tms
       ELSE Append(tms, [phase |-> ph, recs |-> prs])

\* The timer effect with an interval that keeps the phase it first closed
\* over
TimerEffectStalePhase(tms, changed, tl, ph, prs) ==
  IF ~changed THEN tms
  ELSE IF tl <= 0 THEN <<>>
       ELSE IF tms = <<>> THEN <<[phase |-> ph, recs |-> prs]>>
            ELSE <<[phase |-> tms[1].phase, recs |-> prs]>>

\* useEffect(..., [timeLeft, phase]): when timeLeft or phase changed, the
\* cleanup clears the interval of timerRef.current, and the effect creates
\* a new one if timeLeft > 0.  The interval's callback closes over the
\* handleTimeUp of that render: its phase and its partRecordings.
TimerEffect(tms, changed, tl, ph, prs) ==
  IF ~changed THEN tms
  ELSE LET cleared == IF tms = <<>> THEN tms
                      ELSE SubSeq(tms, 1, Len(tms) - 1)
       IN IF tl <= 0 THEN cleared
          ELSE Append(cleared, [phase |-> ph, recs |-> prs])

\* A failed request that leaves the phase alone
RevertPhaseStays(ph) == ph

\* line 635: setPhase('part3_questions')
RevertPhase(ph) == "part3_questions"

\* The comparison of line 601 with the threshold included
FluencyFlagInclusive(d) == d <= PART2_MIN_SPEAKING_SECONDS

\* line 601
FluencyFlag(d) == d < PART2_MIN_SPEAKING_SECONDS

\* line 600: partRecordings[2]?.speakingDuration || 0
SpeakingDurationOf(prs) ==
  IF prs[2].exists /\ prs[2].speakingDuration > 0
  THEN prs[2].speakingDuration ELSE 0

\* lines 588-595: the parts of the snapshot that have a payload
RECURSIVE PartAudios(_, _)
PartAudios(prs, p) ==
  IF p > 3 THEN <<>>
  ELSE (IF prs[p].audioBase64 # <<>>
        THEN <<[partNumber |-> p, audioBase64 |-> prs[p].audioBase64,
                duration |-> IF prs[p].duration > 0 THEN prs[p].duration
                             ELSE 0]>>
        ELSE <<>>) \o PartAudios(prs, p + 1)

\* lines 586-618: the body of the evaluation request
RequestBody(prs) ==
  [partAudios |-> PartAudios(prs, 1),
   part2SpeakingDuration |-> SpeakingDurationOf(prs),
   fluencyFlag |-> FluencyFlag(SpeakingDurationOf(prs))]

NoBody == [partAudios |-> <<>>, part2SpeakingDuration |-> 0,
           fluencyFlag |-> FALSE]

\* The record of a handleCompleteTest call that has returned
Resolved(outcome) ==
  [pc |-> outcome, ticks |-> 0, endedIn |-> "none", part |-> 0,
   capturing |-> FALSE, captured |-> <<>>,
   recs |-> [p \in Parts |-> NoRecording], body |-> NoBody]

Remove(seq, k) == SubSeq(seq, 1, k - 1) \o SubSeq(seq, k + 1, Len(seq))

\* A pending timeout is due no later than one set after it with a delay at
\* least as long
MayFire(tos, k) == \A j \in 1..(k - 1) : tos[j].delay > tos[k].delay

Timeout(kind, delay, recs, sub) ==
  [kind |-> kind, delay |-> delay, recs |-> recs, sub |-> sub, ticks |-> 0]

\* A getUserMedia call just made
Pending == [ticks |-> 0]

\* The pending callbacks and promises after one more firing of the interval
Older(seq) == [i \in DOMAIN seq |-> [seq[i] EXCEPT !.ticks = @ + 1]]

\* The same for the evaluation requests in flight
OlderInvoked(subs) ==
  [s \in DOMAIN subs |->
     IF subs[s].pc = "invoked" THEN [subs[s] EXCEPT !.ticks = @ + 1]
     ELSE subs[s]]

\* The firings of the one-second interval a timeout can see before it is due
TicksWithin(delay) == (delay + 999) \div 1000

\* The page before the start overlay is answered
\* line 584: gemini.disconnect()
Disconnect(c) ==
  CASE c \in {"open", "closed"} -> "closed"
    [] c = "pending" -> "abandoned"
    [] OTHER -> c

EmptyRecordings == [p \in Parts |-> NoRecording]

PageInit ==
  /\ showStartOverlay = TRUE
  /\ connection = "none"
  /\ phase = "connecting"
  /\ currentPart = 1
  /\ timeLeft = 0
  /\ isRecording = FALSE
  /\ partRecordings = EmptyRecordings
  /\ mediaRecorderRef = 0
  /\ audioChunksRef = <<>>
  /\ recorders = <<>>
  /\ micRequests = <<>>
  /\ timers = <<>>
  /\ timeouts = <<>>
  /\ readers = <<>>
  /\ submissions = <<>>
  /\ navigated = FALSE
  /\ events = 0
  /\ chunkCount = 0
  /\ countdownPhase = "none"
  /\ timeUp = [handler |-> "none", owner |-> "none", captured |-> FALSE]

\* ------------------------------------------------------------- actions

Init ==
  /\ playSessionRef = 0
  /\ isSpeaking = FALSE
  /\ currentClipKey = Null
  /\ failedClips = <<>>
  /\ runs = <<>>
  /\ failedBy = <<>>
  /\ work = 0
  /\ PageInit

\* lines 17-21
Stop ==
  /\ work + 1 <= MaxWork
  /\ playSessionRef' = StopSession(playSessionRef)
  /\ isSpeaking' = FALSE
  /\ currentClipKey' = Null
  /\ runs' = MarkCancelled(runs, playSessionRef, "stop")
  /\ work' = work + 1
  /\ UNCHANGED <<failedClips, failedBy>>
  /\ UNCHANGED pageVars

\* line 25: a call with an empty list returns at once and changes nothing
PlayClipsEmpty ==
  UNCHANGED vars

\* lines 27-49: a call with a non-empty list, up to its first await; bad
\* holds the positions of the clips whose payload does not decode
PlayClipsWith(clips, retryCount, bad) ==
  /\ Len(clips) > 0
  /\ work + Work(clips, retryCount) <= MaxWork
  /\ work' = work + Work(clips, retryCount)
  /\ LET r    == Len(runs) + 1
         sid  == NewSession(playSessionRef)
         run0 == [sessionId |-> sid, clips |-> clips,
                  retryCount |-> retryCount, i |-> 0,
                  attempts |-> 0, success |-> FALSE,
                  pc |-> "entered", url |-> 0, log |-> <<>>,
                  cancelCause |-> "none", cancelAt |-> 0, bad |-> bad]
         st0  == [StateOf(r, run0) EXCEPT !.ref = sid, !.speaking = TRUE,
                                          !.failed = <<>>, !.failedBy = <<>>]
         st   == ForLoop(st0, 1)
     IN /\ playSessionRef' = st.ref
        /\ isSpeaking' = st.speaking
        /\ currentClipKey' = st.key
        /\ failedClips' = st.failed
        /\ failedBy' = st.failedBy
        /\ runs' = Append(MarkCancelled(runs, playSessionRef, "playClips"),
                          st.run)
  /\ UNCHANGED pageVars

\* a call whose clips all decode
PlayClips(clips, retryCount) == PlayClipsWith(clips, retryCount, {})

\* a call with at least one clip whose payload does not decode
PlayClipsUndecodable(clips, retryCount) ==
  \E bad \in (SUBSET DOMAIN clips) \ {{}} :
    PlayClipsWith(clips, retryCount, bad)

\* lines 46-63: the attempt call r awaits ends (ok) or fails (~ok), and the
\* call continues to its next await or to its end
AttemptSettles(r, ok) ==
  /\ runs[r].pc = "awaiting"
  /\ LET st == WhileLoop(Settle(StateOf(r, runs[r]), ok))
     IN /\ playSessionRef' = st.ref
        /\ isSpeaking' = st.speaking
        /\ currentClipKey' = st.key
        /\ failedClips' = st.failed
        /\ failedBy' = st.failedBy
        /\ runs' = [runs EXCEPT ![r] = st.run]
  /\ UNCHANGED <<work, pageVars>>

AttemptEnds(r) == AttemptSettles(r, TRUE)
AttemptErrors(r) == AttemptSettles(r, FALSE)

Next ==
  \/ Stop
  \/ PlayClipsEmpty
  \/ \E clips \in ClipLists, rc \in RetryCounts : PlayClips(clips, rc)
  \/ \E r \in Calls : AttemptEnds(r)
  \/ \E r \in Calls : AttemptErrors(r)

Spec == Init /\ [][Next]_vars

\* Every playback attempt eventually ends or errors
FairSpec ==
  Spec /\ WF_vars(\E r \in Calls : AttemptEnds(r) \/ AttemptErrors(r))

\* The clip queue fed with payloads that may fail to decode
DecodeNext ==
  \/ Stop
  \/ PlayClipsEmpty
  \/ \E clips \in ClipLists, rc \in RetryCounts : PlayClips(clips, rc)
  \/ \E clips \in ClipLists, rc \in RetryCounts :
       PlayClipsUndecodable(clips, rc)
  \/ \E r \in Calls : AttemptEnds(r)
  \/ \E r \in Calls : AttemptErrors(r)

DecodeSpec == Init /\ [][DecodeNext]_vars

\* --------------------------------------------- actions of the page

\* The render that follows a handler: the timer effect runs when timeLeft
\* or phase changed (lines 189-207)
Rerender ==
  timers' = TimerEffect(timers, phase' # phase \/ timeLeft' # timeLeft,
                        timeLeft', phase', partRecordings')

\* The interval may fire: no timeout is overdue and no promise has been
\* pending for MaxLag firings
SecondMayPass ==
  /\ \A k \in DOMAIN timeouts :
       timeouts[k].ticks < TicksWithin(timeouts[k].delay)
  /\ \A m \in DOMAIN micRequests : micRequests[m].ticks < MaxLag
  /\ \A k \in DOMAIN readers : readers[k].ticks < MaxLag
  /\ \A s \in DOMAIN submissions :
       submissions[s].pc = "invoked" => submissions[s].ticks < MaxLag

SecondPasses(tos) ==
  /\ timeouts' = Older(tos)
  /\ micRequests' = Older(micRequests)
  /\ readers' = Older(readers)
  /\ submissions' = OlderInvoked(submissions)

\* The test UI is on screen: the start overlay is gone and the page has not
\* been left
MainUI == ~showStartOverlay /\ ~navigated

\* lines 640-646: the start overlay's onStart, up to the await
HandleStartTest ==
  /\ showStartOverlay /\ ~navigated
  /\ showStartOverlay' = FALSE
  /\ phase' = "connecting"
  /\ connection' = "pending"
  /\ UNCHANGED chunkCount
  /\ UNCHANGED clipVars
  /\ UNCHANGED <<currentPart, timeLeft, isRecording, partRecordings,
                 mediaRecorderRef, audioChunksRef, recorders, micRequests,
                 timeouts, readers, submissions, navigated, events,
                 countdownPhase, timeUp>>
  /\ Rerender

\* lines 144-148 and 365-368: the connection opens
ConnectionOpens ==
  /\ connection = "pending" /\ ~navigated
  /\ connection' = "open"
  /\ phase' = IF phase = "connecting" THEN "identity_check" ELSE phase
  /\ UNCHANGED chunkCount
  /\ UNCHANGED clipVars
  /\ UNCHANGED <<showStartOverlay, currentPart, timeLeft, isRecording,
                 partRecordings, mediaRecorderRef, audioChunksRef, recorders,
                 micRequests, timeouts, readers, submissions, navigated,
                 events, countdownPhase, timeUp>>
  /\ Rerender

\* lines 647-654: gemini.connect() rejects
ConnectionFails ==
  /\ connection = "pending" /\ ~navigated
  /\ events < MaxEvents
  /\ events' = events + 1
  /\ connection' = "failed"
  /\ UNCHANGED chunkCount
  /\ UNCHANGED clipVars
  /\ UNCHANGED <<showStartOverlay, phase, currentPart, timeLeft, isRecording,
                 partRecordings, mediaRecorderRef, audioChunksRef, recorders,
                 micRequests, timers, timeouts, readers, submissions,
                 navigated, countdownPhase, timeUp>>

\* lines 371-389: "Continue to Part 1" (shown in identity_check)
StartPart1 ==
  /\ MainUI /\ phase = "identity_check"
  /\ phase' = "part1_intro"
  /\ currentPart' = 1
  /\ partRecordings' = [partRecordings EXCEPT ![1] = NewRecording]
  /\ audioChunksRef' = <<>>
  /\ timeouts' = Append(timeouts, Timeout("part1_questions",
                          Part1QuestionsDelay, EmptyRecordings, 0))
  /\ UNCHANGED chunkCount
  /\ UNCHANGED clipVars
  /\ UNCHANGED <<showStartOverlay, connection, timeLeft, isRecording,
                 mediaRecorderRef, recorders, micRequests, readers,
                 submissions, navigated, events, countdownPhase, timeUp>>
  /\ Rerender

\* lines 389-392, 269-273: the delayed callback of startPart1 or of
\* transitionToPart3 sets the questions phase and asks for the microphone
QuestionsBegin(k) ==
  /\ ~navigated /\ k \in DOMAIN timeouts /\ MayFire(timeouts, k)
  /\ timeouts[k].kind \in {"part1_questions", "part3_questions"}
  /\ phase' = timeouts[k].kind
  /\ micRequests' = Append(micRequests, Pending)
  /\ timeouts' = Remove(timeouts, k)
  /\ UNCHANGED chunkCount
  /\ UNCHANGED clipVars
  /\ UNCHANGED <<showStartOverlay, connection, currentPart, timeLeft,
                 isRecording, partRecordings, mediaRecorderRef,
                 audioChunksRef, recorders, readers, submissions, navigated,
                 events, countdownPhase, timeUp>>
  /\ Rerender

\* lines 273-282, 313-322, 392-402, 473-482, 493-504: getUserMedia resolves
\* and the recorder starts
MicrophoneGranted(m) ==
  /\ ~navigated /\ m \in DOMAIN micRequests
  /\ micRequests' = Remove(micRequests, m)
  /\ recorders' = Append(recorders, [state |-> "recording", live |-> TRUE])
  /\ mediaRecorderRef' = Len(recorders) + 1
  /\ isRecording' = TRUE
  /\ UNCHANGED chunkCount
  /\ UNCHANGED clipVars
  /\ UNCHANGED <<showStartOverlay, connection, phase, currentPart, timeLeft,
                 partRecordings, audioChunksRef, timers, timeouts, readers,
                 submissions, navigated, events, countdownPhase, timeUp>>

\* lines 284-286, 324-326, 404-406, 484-486, 507-515: getUserMedia rejects
MicrophoneDenied(m) ==
  /\ ~navigated /\ m \in DOMAIN micRequests
  /\ events < MaxEvents
  /\ events' = events + 1
  /\ micRequests' = Remove(micRequests, m)
  /\ UNCHANGED chunkCount
  /\ UNCHANGED clipVars
  /\ UNCHANGED <<showStartOverlay, connection, phase, currentPart, timeLeft,
                 isRecording, partRecordings, mediaRecorderRef,
                 audioChunksRef, recorders, timers, timeouts, readers,
                 submissions, navigated, countdownPhase, timeUp>>

\* recorder.ondataavailable with e.data.size > 0: a fragment is pushed
DataAvailable(r) ==
  /\ ~navigated /\ events < MaxEvents
  /\ recorders[r].state = "recording"
  /\ events' = events + 1
  /\ chunkCount' = chunkCount + 1
  /\ audioChunksRef' = Append(audioChunksRef, chunkCount + 1)
  /\ UNCHANGED clipVars
  /\ UNCHANGED <<showStartOverlay, connection, phase, currentPart, timeLeft,
                 isRecording, partRecordings, mediaRecorderRef, recorders,
                 micRequests, timers, timeouts, readers, submissions,
                 navigated, countdownPhase, timeUp>>

\* The Pause/Resume button is rendered in these phases (lines 1071, 1094)
PausePhases ==
  {"part1_intro", "part1_questions", "part3_intro", "part3_questions"}

\* lines 491-494: Resume, up to the await
StartRecording ==
  /\ MainUI /\ phase \in PausePhases /\ ~isRecording
  /\ events < MaxEvents
  /\ events' = events + 1
  /\ micRequests' = Append(micRequests, Pending)
  /\ UNCHANGED chunkCount
  /\ UNCHANGED clipVars
  /\ UNCHANGED <<showStartOverlay, connection, phase, currentPart, timeLeft,
                 isRecording, partRecordings, mediaRecorderRef,
                 audioChunksRef, recorders, timers, timeouts, readers,
                 submissions, navigated, countdownPhase, timeUp>>

\* lines 519-541: Pause.  It needs a running capture, so the captures that
\* were started bound it.
StopRecording ==
  /\ MainUI /\ phase \in PausePhases /\ isRecording
  /\ UNCHANGED events
  /\ recorders' = StopCapture(recorders, mediaRecorderRef)
  /\ isRecording' = FALSE
  /\ partRecordings' = SaveChunks(partRecordings, currentPart, audioChunksRef)
  /\ UNCHANGED chunkCount
  /\ UNCHANGED clipVars
  /\ UNCHANGED <<showStartOverlay, connection, phase, currentPart, timeLeft,
                 mediaRecorderRef, audioChunksRef, micRequests, timers,
                 timeouts, readers, submissions, navigated, countdownPhase,
                 timeUp>>

\* lines 411-456: "Next: Part 2" (shown in part1_intro and part1_questions)
TransitionToPart2 ==
  /\ MainUI /\ phase \in {"part1_intro", "part1_questions"}
  /\ recorders' = StopCapture(recorders, mediaRecorderRef)
  /\ isRecording' = FALSE
  /\ readers' = StartReader(readers, partRecordings[1], 1,
                            partRecordings[1].chunks \o audioChunksRef)
  /\ phase' = "part2_intro"
  /\ currentPart' = 2
  /\ partRecordings' = [partRecordings EXCEPT ![2] = NewRecording]
  /\ audioChunksRef' = <<>>
  /\ timeouts' = Append(timeouts, Timeout("part2_prep", Part2PrepDelay,
                                          EmptyRecordings, 0))
  /\ UNCHANGED chunkCount
  /\ UNCHANGED clipVars
  /\ UNCHANGED <<showStartOverlay, connection, timeLeft, mediaRecorderRef,
                 micRequests, submissions, navigated, events, countdownPhase,
                 timeUp>>
  /\ Rerender

\* lines 456-459: the delayed callback of transitionToPart2
Part2PrepBegins(k) ==
  /\ ~navigated /\ k \in DOMAIN timeouts /\ MayFire(timeouts, k)
  /\ timeouts[k].kind = "part2_prep"
  /\ phase' = "part2_prep"
  /\ timeLeft' = PART2_PREP_TIME
  /\ countdownPhase' = "part2_prep"
  /\ timeouts' = Remove(timeouts, k)
  /\ UNCHANGED chunkCount
  /\ UNCHANGED clipVars
  /\ UNCHANGED <<showStartOverlay, connection, currentPart, isRecording,
                 partRecordings, mediaRecorderRef, audioChunksRef, recorders,
                 micRequests, readers, submissions, navigated, events,
                 timeUp>>
  /\ Rerender

\* lines 463-471: "I'm Ready to Speak" (shown in part2_prep)
StartPart2Speaking ==
  /\ MainUI /\ phase = "part2_prep"
  /\ phase' = "part2_speaking"
  /\ timeLeft' = PART2_SPEAK_TIME
  /\ countdownPhase' = "part2_speaking"
  /\ timeouts' = Append(timeouts, Timeout("capture", Part2CaptureDelay,
                                          EmptyRecordings, 0))
  /\ UNCHANGED chunkCount
  /\ UNCHANGED clipVars
  /\ UNCHANGED <<showStartOverlay, connection, currentPart, isRecording,
                 partRecordings, mediaRecorderRef, audioChunksRef, recorders,
                 micRequests, readers, submissions, navigated, events,
                 timeUp>>
  /\ Rerender

\* lines 311-313, 471-473: the delayed capture of Part 2 asks for the
\* microphone
CaptureDue(k) ==
  /\ ~navigated /\ k \in DOMAIN timeouts /\ MayFire(timeouts, k)
  /\ timeouts[k].kind = "capture"
  /\ micRequests' = Append(micRequests, Pending)
  /\ timeouts' = Remove(timeouts, k)
  /\ UNCHANGED chunkCount
  /\ UNCHANGED clipVars
  /\ UNCHANGED <<showStartOverlay, connection, phase, currentPart, timeLeft,
                 isRecording, partRecordings, mediaRecorderRef,
                 audioChunksRef, recorders, timers, readers, submissions,
                 navigated, events, countdownPhase, timeUp>>

\* lines 192-201: the interval fires with more than a second left
TickDown(k) ==
  /\ ~navigated /\ k \in DOMAIN timers
  /\ timeLeft > 1 /\ SecondMayPass
  /\ timeLeft' = timeLeft - 1
  /\ SecondPasses(timeouts)
  /\ UNCHANGED chunkCount
  /\ UNCHANGED clipVars
  /\ UNCHANGED <<showStartOverlay, connection, phase, currentPart,
                 isRecording, partRecordings, mediaRecorderRef,
                 audioChunksRef, recorders, navigated, events,
                 countdownPhase, timeUp>>
  /\ Rerender

\* The phases whose time-up branch stops the capture
StopsAtTimeUp ==
  {"part1_question_recording", "part2_speaking", "part3_question_recording"}

\* lines 192-198 and 291-362: the interval fires with a second or less left
\* and the updater calls the handleTimeUp it closed over, then returns 0.
\* The part2_prep branch calls setTimeLeft(120) from inside that updater;
\* React applies the two updates in the order it queued them, which depends
\* on whether it ran the updater at the call or at the next render: timeLeft
\* ends as 120 or as 0.
TimeUp(k) ==
  /\ ~navigated /\ k \in DOMAIN timers
  /\ timeLeft <= 1 /\ SecondMayPass
  /\ LET cp == timers[k].phase
     IN \E final \in (IF cp = "part2_prep" THEN {0, PART2_SPEAK_TIME}
                      ELSE {0}),
           d \in (IF cp = "part2_speaking" THEN SpeakingDurations ELSE {0}) :
          /\ timeLeft' = final
          /\ phase' = CASE cp = "part1_question_recording" -> "part1_questions"
                        [] cp = "part3_question_recording" -> "part3_questions"
                        [] cp = "part2_prep" -> "part2_speaking"
                        [] OTHER -> phase
          /\ recorders' = IF cp \in StopsAtTimeUp
                          THEN StopCapture(recorders, mediaRecorderRef)
                          ELSE recorders
          /\ isRecording' = IF cp \in StopsAtTimeUp THEN FALSE
                            ELSE isRecording
          /\ partRecordings' =
               IF cp = "part2_speaking"
               THEN [partRecordings EXCEPT ![2].speakingDuration = d]
               ELSE partRecordings
          /\ timeouts' =
               CASE cp = "part2_prep" ->
                      Append(Older(timeouts),
                             Timeout("capture", Part2CaptureDelay,
                                     EmptyRecordings, 0))
                 [] cp = "part2_speaking" ->
                      Append(Older(timeouts),
                             Timeout("transitionToPart3",
                                     Part3TransitionDelay, timers[k].recs, 0))
                 [] OTHER -> Older(timeouts)
          /\ countdownPhase' = IF final > 0 THEN "part2_speaking" ELSE "none"
          /\ timeUp' = [handler |-> cp, owner |-> countdownPhase,
                         captured |-> audioChunksRef # <<>>]
  /\ micRequests' = Older(micRequests)
  /\ readers' = Older(readers)
  /\ submissions' = OlderInvoked(submissions)
  /\ UNCHANGED chunkCount
  /\ UNCHANGED clipVars
  /\ UNCHANGED <<showStartOverlay, connection, currentPart, mediaRecorderRef,
                 audioChunksRef, navigated, events>>
  /\ Rerender

\* lines 210-269: transitionToPart3, called by the timeout of line 346 with
\* the partRecordings its handleTimeUp closed over.  The updater of line 219
\* reads audioChunksRef.current when React runs it: at the call, or at the
\* next render, after line 265 has emptied the ref.
TransitionToPart3(k) ==
  /\ ~navigated /\ k \in DOMAIN timeouts /\ MayFire(timeouts, k)
  /\ timeouts[k].kind = "transitionToPart3"
  /\ recorders' = StopCapture(recorders, mediaRecorderRef)
  /\ isRecording' = FALSE
  /\ \E atCall \in BOOLEAN :
       partRecordings' =
         [SaveChunks(partRecordings, 2,
                     IF atCall THEN audioChunksRef ELSE <<>>)
            EXCEPT ![3] = NewRecording]
  /\ readers' = StartReader(readers, timeouts[k].recs[2], 2,
                            timeouts[k].recs[2].chunks)
  /\ phase' = "part3_intro"
  /\ currentPart' = 3
  /\ audioChunksRef' = <<>>
  /\ timeouts' = Append(Remove(timeouts, k),
                        Timeout("part3_questions", Part3QuestionsDelay,
                                EmptyRecordings, 0))
  /\ UNCHANGED chunkCount
  /\ UNCHANGED clipVars
  /\ UNCHANGED <<showStartOverlay, connection, timeLeft, mediaRecorderRef,
                 micRequests, submissions, navigated, events, countdownPhase,
                 timeUp>>
  /\ Rerender

\* lines 238-248, 425-435, 553-563: reader.onloadend stores the payload and
\* the duration of the part
ReaderLoads(k, d) ==
  /\ ~navigated /\ k \in DOMAIN readers
  /\ partRecordings' =
       [partRecordings EXCEPT ![readers[k].part].audioBase64 =
                                 readers[k].payload,
                              ![readers[k].part].duration = d]
  /\ readers' = Remove(readers, k)
  /\ UNCHANGED chunkCount
  /\ UNCHANGED clipVars
  /\ UNCHANGED <<showStartOverlay, connection, phase, currentPart, timeLeft,
                 isRecording, mediaRecorderRef, audioChunksRef, recorders,
                 micRequests, timers, timeouts, submissions, navigated,
                 events, countdownPhase, timeUp>>

\* lines 575-583: "End Test" (enabled unless phase is submitting) and
\* "Complete Test", up to the await.  The call keeps the partRecordings of
\* the render it was made in.
HandleCompleteTest ==
  /\ MainUI /\ phase # "submitting"
  /\ events < MaxEvents
  /\ events' = events + 1
  /\ recorders' = StopCapture(recorders, mediaRecorderRef)
  /\ isRecording' = FALSE
  /\ partRecordings' = SaveChunks(partRecordings, currentPart, audioChunksRef)
  /\ readers' = StartReader(readers, partRecordings[3], 3,
                            partRecordings[3].chunks)
  /\ phase' = "submitting"
  /\ submissions' =
       Append(submissions,
              [pc |-> "waiting", ticks |-> 0, endedIn |-> phase, part |-> currentPart,
               capturing |-> (mediaRecorderRef # 0
                              /\ recorders[mediaRecorderRef].state
                                   = "recording"),
               captured |-> audioChunksRef, recs |-> partRecordings,
               body |-> NoBody])
  /\ timeouts' = Append(timeouts, Timeout("complete", CompleteTestDelay,
                                          EmptyRecordings,
                                          Len(submissions) + 1))
  /\ UNCHANGED chunkCount
  /\ UNCHANGED clipVars
  /\ UNCHANGED <<showStartOverlay, connection, currentPart, timeLeft,
                 mediaRecorderRef, audioChunksRef, micRequests, navigated,
                 countdownPhase, timeUp>>
  /\ Rerender

\* lines 584-618: after the two seconds the call disconnects, builds the
\* request from the partRecordings it kept, and sends it.  A channel that
\* had not opened is abandoned: it reports nothing afterwards.
CompleteTestContinues(k) ==
  /\ ~navigated /\ k \in DOMAIN timeouts /\ MayFire(timeouts, k)
  /\ timeouts[k].kind = "complete"
  /\ connection' = Disconnect(connection)
  /\ submissions' =
       [submissions EXCEPT ![timeouts[k].sub].pc = "invoked",
                           ![timeouts[k].sub].ticks = 0,
                           ![timeouts[k].sub].body =
                              RequestBody(submissions[timeouts[k].sub].recs)]
  /\ timeouts' = Remove(timeouts, k)
  /\ UNCHANGED chunkCount
  /\ UNCHANGED clipVars
  /\ UNCHANGED <<showStartOverlay, phase, currentPart, timeLeft, isRecording,
                 partRecordings, mediaRecorderRef, audioChunksRef, recorders,
                 micRequests, timers, readers, navigated, events,
                 countdownPhase, timeUp>>

\* lines 620-627: the request succeeds and the page is left for the results
\* page; the unmount runs the cleanup of the timer effect
EvaluationSucceeds(s) ==
  /\ ~navigated /\ s \in DOMAIN submissions
  /\ submissions[s].pc = "invoked"
  /\ submissions' = [submissions EXCEPT ![s] = Resolved("succeeded")]
  /\ navigated' = TRUE
  /\ timers' = <<>>
  /\ UNCHANGED chunkCount
  /\ UNCHANGED clipVars
  /\ UNCHANGED <<showStartOverlay, connection, phase, currentPart, timeLeft,
                 isRecording, partRecordings, mediaRecorderRef,
                 audioChunksRef, recorders, micRequests, timeouts, readers,
                 events, countdownPhase, timeUp>>

\* lines 628-636: the request fails
EvaluationFails(s) ==
  /\ ~navigated /\ s \in DOMAIN submissions
  /\ submissions[s].pc = "invoked"
  /\ submissions' = [submissions EXCEPT ![s] = Resolved("failed")]
  /\ phase' = RevertPhase(phase)
  /\ UNCHANGED chunkCount
  /\ UNCHANGED clipVars
  /\ UNCHANGED <<showStartOverlay, connection, currentPart, timeLeft,
                 isRecording, partRecordings, mediaRecorderRef,
                 audioChunksRef, recorders, micRequests, timeouts, readers,
                 navigated, events, countdownPhase, timeUp>>
  /\ Rerender

PageNext ==
  \/ HandleStartTest
  \/ ConnectionOpens
  \/ ConnectionFails
  \/ StartPart1
  \/ \E k \in DOMAIN timeouts : QuestionsBegin(k)
  \/ \E m \in DOMAIN micRequests : MicrophoneGranted(m)
  \/ \E m \in DOMAIN micRequests : MicrophoneDenied(m)
  \/ \E r \in DOMAIN recorders : DataAvailable(r)
  \/ StartRecording
  \/ StopRecording
  \/ TransitionToPart2
  \/ \E k \in DOMAIN timeouts : Part2PrepBegins(k)
  \/ StartPart2Speaking
  \/ \E k \in DOMAIN timeouts : CaptureDue(k)
  \/ \E k \in DOMAIN timers : TickDown(k)
  \/ \E k \in DOMAIN timers : TimeUp(k)
  \/ \E k \in DOMAIN timeouts : TransitionToPart3(k)
  \/ \E k \in DOMAIN readers, d \in RecordingDurations : ReaderLoads(k, d)
  \/ HandleCompleteTest
  \/ \E k \in DOMAIN timeouts : CompleteTestContinues(k)
  \/ \E s \in DOMAIN submissions : EvaluationSucceeds(s)
  \/ \E s \in DOMAIN submissions : EvaluationFails(s)

PageSpec == Init /\ [][PageNext]_vars

\* ------------------------------------------------------ vocabulary

Returned(r) == runs[r].pc = "returned"
Cancelled(r) == runs[r].cancelCause # "none"   \* stopped or superseded
Current(r) == runs[r].sessionId = playSessionRef
Log(r) == runs[r].log
AttemptsOf(r, j) == {n \in DOMAIN Log(r) : Log(r)[n].clip = j}
Succeeded(r, j) == \E n \in AttemptsOf(r, j) : Log(r)[n].status = "ended"
Settled(e) == e.status # "playing"

\* The most recent call that got past line 25 (0 if none)
LatestStarted == Len(runs)

\* Keys of the clips of call r with no successful attempt, in list order
FailedKeys(r) ==
  LET Idx(k) == CHOOSE j \in DOMAIN runs[r].clips : runs[r].clips[j] = k
  IN SelectSeq(runs[r].clips, LAMBDA k : ~Succeeded(r, Idx(k)))

\* -------------------------------------------------------------- claims

\* C1: in a run that is neither stopped nor superseded the clips are started
\* in list order, each index once and none skipped; a clip's first attempt
\* begins only after every attempt of the earlier clips has completed and
\* its URL has been revoked; and the run ends only after the last index.
C1_InOrderExactlyOnce ==
  \A r \in Calls :
    ~Cancelled(r) =>
      LET firsts == SelectSeq(Log(r), LAMBDA e : e.attempt = 0)
      IN /\ Len(firsts) = runs[r].i
         /\ \A k \in DOMAIN firsts : firsts[k].clip = k
         /\ \A m, n \in DOMAIN Log(r) :
              m < n =>
                /\ Log(r)[m].clip <= Log(r)[n].clip
                /\ Log(r)[m].clip < Log(r)[n].clip =>
                     Settled(Log(r)[m]) /\ Log(r)[m].revoked = 1
         /\ Returned(r) => runs[r].i = Len(runs[r].clips)

C1_Witness ==
  \E r \in Calls :
    /\ ~Cancelled(r) /\ Returned(r)
    /\ Len(runs[r].clips) = 2 /\ runs[r].retryCount = 1
    /\ ~Succeeded(r, 1) /\ Cardinality(AttemptsOf(r, 1)) = 2
    /\ Succeeded(r, 2)

\* C2: when a run that was not stopped or superseded has ended, failedClips
\* is the list-order sequence of the keys of its clips whose every attempt
\* failed.
C2_FailedClipsExact ==
  \A r \in Calls :
    (Returned(r) /\ ~Cancelled(r) /\ Current(r)) =>
      failedClips = FailedKeys(r)

\* C3: stop() makes isSpeaking false and currentClipKey null at once, and a
\* run stopped while its clip i was playing never starts clip i+1..n.
C3_StopHalts ==
  /\ [][(work' # work /\ Len(runs') = Len(runs)) =>
        (isSpeaking' = FALSE /\ currentClipKey' = Null)]_vars
  /\ [](\A r \in Calls :
          runs[r].cancelCause = "stop" => runs[r].i = runs[r].cancelAt)

C3_Witness ==
  \E r \in Calls :
    /\ runs[r].cancelCause = "stop" /\ Returned(r)
    /\ runs[r].cancelAt < Len(runs[r].clips)
    /\ ~isSpeaking /\ currentClipKey = Null

\* C4: a run superseded by a second playClips call never starts a clip that
\* had not started when the second call was made.
C4_SupersededStartsNoClip ==
  \A r \in Calls :
    runs[r].cancelCause = "playClips" => runs[r].i = runs[r].cancelAt

C4_Witness ==
  \E r \in Calls :
    /\ runs[r].cancelCause = "playClips" /\ Returned(r)
    /\ runs[r].cancelAt < Len(runs[r].clips)

\* C5: a run that was stopped or superseded begins no further playback
\* attempt: every attempt is begun while its run's session is the current
\* one.
C5_NoAttemptAfterCancel ==
  \A r \in Calls : \A n \in DOMAIN Log(r) :
    Log(r)[n].sessAtStart = runs[r].sessionId

\* C6: only the current run has an attempt playing: once stop() or a newer
\* playClips call has changed the session, no attempt of an earlier run is
\* playing.
C6_OneRunPlaying ==
  \A r \in Calls : \A n \in DOMAIN Log(r) :
    Log(r)[n].status = "playing" => Current(r)

\* C7: failedClips holds only keys appended by the most recently started
\* run, for clips of that run that exhausted their attempts.
C7_FailedClipsOfLatestRun ==
  \A k \in DOMAIN failedClips :
    /\ failedBy[k] = LatestStarted
    /\ \E j \in DOMAIN runs[LatestStarted].clips :
         /\ runs[LatestStarted].clips[j] = failedClips[k]
         /\ ~Succeeded(LatestStarted, j)

\* C8: the URL of every attempt is revoked exactly once when the attempt has
\* ended, on the success, failure and abandoned-run paths alike, and never
\* twice.
C8_RevokedExactlyOnce ==
  \A r \in Calls : \A n \in DOMAIN Log(r) :
    /\ Log(r)[n].revoked <= 1
    /\ Settled(Log(r)[n]) => Log(r)[n].revoked = 1

C8_Witness ==
  \E r \in Calls :
    /\ Cancelled(r) /\ Returned(r)
    /\ \E m, n \in DOMAIN Log(r) :
         /\ Log(r)[m].status = "error" /\ Log(r)[m].revoked = 1
         /\ Log(r)[n].status = "ended" /\ Log(r)[n].revoked = 1
         /\ Log(r)[n].sessAtStart # runs[r].sessionId

\* C9: every clip a run has started gets at least 1 and at most
\* retryCount+1 attempts and none after its first success, and a run that
\* is not stopped or superseded starts every clip of its list.
C9_AttemptBounds ==
  \A r \in Calls :
    /\ \A n \in DOMAIN Log(r) : Log(r)[n].clip \in 1..runs[r].i
    /\ \A j \in 1..runs[r].i :
         /\ Cardinality(AttemptsOf(r, j)) >= 1
         /\ Cardinality(AttemptsOf(r, j)) <= runs[r].retryCount + 1
         /\ \A m, n \in AttemptsOf(r, j) :
              m < n => Log(r)[m].status = "error"
    /\ (Returned(r) /\ ~Cancelled(r)) => runs[r].i = Len(runs[r].clips)

C9_Witness ==
  \E r \in Calls :
    /\ runs[r].retryCount = 1 /\ Returned(r)
    /\ \E j \in 1..runs[r].i :
         /\ Cardinality(AttemptsOf(r, j)) = 2
         /\ Succeeded(r, j)
    /\ \E j \in 1..runs[r].i :
         Cardinality(AttemptsOf(r, j)) = 1 /\ Succeeded(r, j)

\* The list of call r is exhausted: every clip was attempted and no attempt
\* is left playing or to be made
Exhausted(r) ==
  /\ \A j \in DOMAIN runs[r].clips : AttemptsOf(r, j) # {}
  /\ \A n \in DOMAIN Log(r) : Settled(Log(r)[n])
  /\ ~ShouldAttempt(runs[r].attempts, runs[r].retryCount, runs[r].success)

\* C10: when every playback attempt eventually ends or errors, every
\* playClips call eventually returns; it has returned only if its list is
\* exhausted or its session is no longer the current one; and a run that
\* returns while its session is still current leaves isSpeaking false and
\* currentClipKey null.
C10_ReturnsEventually ==
  /\ <>[](\A r \in Calls : Returned(r))
  /\ [](\A r \in Calls :
          Returned(r) =>
            /\ Exhausted(r) \/ ~Current(r)
            /\ Current(r) => (isSpeaking = FALSE /\ currentClipKey = Null))

C10_Witness ==
  \E r, q \in Calls :
    /\ Returned(r) /\ Current(r) /\ Exhausted(r)
    /\ Len(runs[r].clips) = 2
    /\ Returned(q) /\ Cancelled(q) /\ ~Exhausted(q)
    /\ isSpeaking = FALSE

\* ------------------------------------------- vocabulary of the page

Interactive == Phases \ {"submitting", "done"}
Submitted == DOMAIN submissions
InFlight(s) == submissions[s].pc \in {"waiting", "invoked"}
Capturing(r) == recorders[r].state = "recording"

\* The phases whose branch of handleTimeUp does something
TimedPhases ==
  {"part1_question_recording", "part2_prep", "part2_speaking",
   "part3_question_recording"}

\* The request of call s carries a payload for part p
HasAudio(s, p) ==
  \E i \in DOMAIN submissions[s].body.partAudios :
    /\ submissions[s].body.partAudios[i].partNumber = p
    /\ submissions[s].body.partAudios[i].audioBase64 # <<>>

\* Fragments of part p existed when call s was made: accumulated in the
\* part's recording, or delivered to the capture then running
HadFragments(s, p) ==
  \/ submissions[s].recs[p].chunks # <<>>
  \/ submissions[s].part = p /\ submissions[s].captured # <<>>

\* ------------------------------------------------ claims of the page

C12_Part1FinalizedOnEnd ==
  \A s \in Submitted :
    (/\ submissions[s].pc = "invoked"
     /\ submissions[s].endedIn = "part1_questions"
     /\ submissions[s].capturing
     /\ submissions[s].captured # <<>>)
      => \/ partRecordings[1].audioBase64 # <<>>
         \/ \E k \in DOMAIN readers : readers[k].part = 1

\* C13: a request that has been sent carries a payload for every part that
\* had fragments when the test was ended.
C13_EveryPartEncoded ==
  \A s \in Submitted :
    submissions[s].pc = "invoked" =>
      \A p \in Parts : HadFragments(s, p) => HasAudio(s, p)

\* C14: the fluencyFlag of a request is true exactly when the Part 2 speaking
\* duration it reports is below 80 seconds (false at exactly 80), and that
\* duration is the one measured at the Part 2 time-up, or 0 when none was
\* measured before the test was ended.
C14_FluencyFlagBelow80 ==
  \A s \in Submitted :
    submissions[s].pc = "invoked" =>
      LET measured == submissions[s].recs[2].speakingDuration
          sent == submissions[s].body.part2SpeakingDuration
      IN /\ sent = (IF measured = -1 THEN 0 ELSE measured)
         /\ submissions[s].body.fluencyFlag <=> sent < 80
         /\ sent = 80 => ~submissions[s].body.fluencyFlag

C14_Witness ==
  \E s \in Submitted :
    /\ submissions[s].pc = "invoked"
    /\ submissions[s].recs[2].speakingDuration = 80
    /\ ~submissions[s].body.fluencyFlag

\* C15: at most one interval of the countdown is live; it is live exactly
\* when timeLeft is positive, and it was created after the last change of
\* phase, the interval of the phase before having been cleared.
C15_OneCountdown ==
  /\ Len(timers) <= 1
  /\ navigated \/ (timers # <<>> <=> timeLeft > 0)
  /\ \A k \in DOMAIN timers : timers[k].phase = phase

C15_Witness ==
  /\ Len(timers) = 1
  /\ phase = "part2_speaking"
  /\ timeLeft < PART2_SPEAK_TIME

\* C16: while the page is shown in part2_speaking and the countdown of that
\* phase has not yet expired, the countdown is running with time left.
C16_SpeakingCountdownRuns ==
  (~navigated /\ phase = "part2_speaking"
     /\ timeUp.handler # "part2_speaking")
    => timeLeft > 0 /\ Len(timers) = 1

\* C17: while the phase is submitting no countdown is running and no capture
\* is active.
C17_SubmittingIsQuiet ==
  phase = "submitting" =>
    /\ timers = <<>>
    /\ \A r \in DOMAIN recorders : ~Capturing(r)

\* C18: at most one microphone stream is open.
C18_OneMicrophone ==
  Cardinality({r \in DOMAIN recorders : recorders[r].live}) <= 1

C20_FailureReturnsToEndedPhase ==
  [][\A s \in Submitted :
       (submissions[s].pc = "invoked" /\ submissions'[s].pc = "failed")
         => phase' = submissions[s].endedIn]_vars

\* C21: at most one evaluation request is outstanding at any time.
C21_OneRequestOutstanding ==
  Cardinality({s \in Submitted : submissions[s].pc = "invoked"}) <= 1

\* The channel has reported that it is connected
Connected == connection \in {"open", "closed"}

\* The phases of the test proper
TestPhases == Phases \ {"connecting", "submitting", "done"}

\* C22: while the channel has not reported connected, the phase is neither
\* identity_check nor a phase of Part 1, 2 or 3.
C22_NoTestWithoutConnection ==
  ~Connected => phase \notin TestPhases

\* C23: once the countdown of part2_speaking has expired with a fragment
\* captured and the transition to Part 3 has run, the recording of Part 2
\* has its payload and duration, or the reader that will store them is
\* running.
C23_Part2FinalizedAfterTimeUp ==
  ( /\ ~navigated
    /\ timeUp.handler = "part2_speaking" /\ timeUp.captured
    /\ \A k \in DOMAIN timeouts : timeouts[k].kind # "transitionToPart3" )
  => \/ /\ partRecordings[2].audioBase64 # <<>>
        /\ partRecordings[2].duration >= 0
     \/ \E k \in DOMAIN readers : readers[k].part = 2

\* C24: the per-question recording phases can be entered: from
\* part1_questions a step of the page leads to part1_question_recording with
\* its 30-second countdown, and from part3_questions a step leads to
\* part3_question_recording.
C24_QuestionRecordingEntered ==
  /\ (MainUI /\ phase = "part1_questions")
       => ENABLED (PageNext /\ phase' = "part1_question_recording"
                           /\ timeLeft' = 30)
  /\ (MainUI /\ phase = "part3_questions")
       => ENABLED (PageNext /\ phase' = "part3_question_recording")

\* C25: a failure of one clip, a payload that does not decode included, is
\* not fatal to the run: a run that is over and was neither stopped nor
\* superseded has taken up every clip of its list and has left isSpeaking
\* false and currentClipKey null.
C25_ClipFailureNotFatal ==
  \A r \in Calls :
    (Current(r) /\ runs[r].pc # "awaiting") =>
      /\ runs[r].i = Len(runs[r].clips)
      /\ isSpeaking = FALSE
      /\ currentClipKey = Null

\* The button that starts a capture (Resume) is offered
ResumeOffered == MainUI /\ phase \in PausePhases /\ ~isRecording

\* C26: when the microphone is refused during the test while nothing is
\* captured, no capture starts, no recorder is stored, the phase stays as it
\* is, and the user is offered the action that starts a capture.
C26_MicrophoneFailureRetryable ==
  [][(/\ phase \in TestPhases /\ ~isRecording
      /\ \E m \in DOMAIN micRequests : MicrophoneDenied(m))
       => /\ isRecording' = FALSE
          /\ mediaRecorderRef' = mediaRecorderRef
          /\ recorders' = recorders
          /\ phase' = phase
          /\ ResumeOffered']_vars

\* C27: from the moment a call of handleCompleteTest sets the phase to
\* submitting until its request has resolved, the phase is submitting.
C27_SubmittingUntilResolved ==
  (~navigated /\ \E s \in Submitted : InFlight(s)) => phase = "submitting"

\* The part of the test a phase belongs to (0: before or outside the parts)
PartOfPhase(ph) ==
  CASE ph \in {"part1_intro", "part1_questions",
               "part1_question_recording"} -> 1
    [] ph \in {"part2_intro", "part2_prep", "part2_speaking"} -> 2
    [] ph \in {"part3_intro", "part3_questions",
               "part3_question_recording"} -> 3
    [] OTHER -> 0

\* C28: the phase never goes back from Part 2 to Part 1 nor from Part 3 to
\* Part 1 or 2, and no capture is running in part2_intro or part2_prep.
C28_PartsInOrder ==
  [][/\ (PartOfPhase(phase) > 0 /\ PartOfPhase(phase') > 0)
          => PartOfPhase(phase') >= PartOfPhase(phase)
     /\ phase' \in {"part2_intro", "part2_prep"}
          => \A r \in DOMAIN recorders' : recorders'[r].state # "recording"
    ]_vars

\* C29: no fragment is stored twice in the accumulated fragments of a
\* part's recording.
C29_FragmentsStoredOnce ==
  \A p \in Parts :
    \A m, n \in DOMAIN partRecordings[p].chunks :
      partRecordings[p].chunks[m] = partRecordings[p].chunks[n] => m = n

\* The most recently started run is still in progress and stop() has not
\* been called since it started
LatestRunLive ==
  /\ LatestStarted > 0
  /\ Current(LatestStarted)
  /\ runs[LatestStarted].pc = "awaiting"

\* C30: isSpeaking is true exactly while the most recently started run is
\* in progress and not stopped, and currentClipKey is then the clip that run
\* is at; otherwise both are cleared.  Runs that were stopped or superseded
\* change neither when they complete.
C30_SpeakingIffLatestRunLive ==
  /\ isSpeaking = LatestRunLive
  /\ currentClipKey =
       IF LatestRunLive
       THEN runs[LatestStarted].clips[runs[LatestStarted].i]
       ELSE Null

\* A superseded run has returned while the run that replaced it plays on
C30_Witness ==
  /\ LatestRunLive /\ isSpeaking
  /\ currentClipKey = runs[LatestStarted].clips[runs[LatestStarted].i]
  /\ \E r \in Calls :
       r < LatestStarted /\ Returned(r) /\ runs[r].cancelCause = "playClips"

====
